---- MODULE Spec2Model ----
(***************************************************************************)
(* Model of SynthSeg/labels_to_image_model.py.                             *)
(*                                                                         *)
(*   get_shapes              the shape planner (lines 249-301)             *)
(*   labels_to_image_model   the graph builder (lines 16-246); the model   *)
(*                           follows the static shape of the `labels` and  *)
(*                           `image` tensors through the stages            *)
(*                                                                         *)
(* Resolutions are positive rationals.  Only the ratio                     *)
(* atlas_res[i] / target_res[i] and the test atlas_res = target_res enter  *)
(* the computation, so a resolution vector is modelled by integers in a    *)
(* common unit and resample_factor[i] by the exact fraction                *)
(* atlas_res[i] / target_res[i].  int(x) is truncation (floor, x >= 0) and *)
(* np.around(x, 0) is round-half-to-even, both computed on the exact       *)
(* fraction.                                                               *)
(*                                                                         *)
(* None is modelled by the empty sequence <<>>; output_div_by_n = k by     *)
(* the one-element sequence <<k>>.                                         *)
(***************************************************************************)
EXTENDS Integers, Sequences, FiniteSets, TLC

\* ---------------------------------------------------------------- bounds
NDims == 2

MaxDim == 3

MaxOut == 3

MaxRes == 2

MaxPad == 1

MaxDiv == 2

MaxLabel == 2

VolLen == 2

None == <<>>

Dims == 1..NDims

VARIABLES
    pc,                 \* position in labels_to_image_model
    in_labels_shape,    \* argument labels_shape
    in_output_shape,    \* argument output_shape (None or a shape)
    atlas_res,          \* argument atlas_res
    target_res,         \* argument target_res
    in_padding_margin,  \* argument padding_margin (None or a margin)
    output_div_by_n,    \* argument output_div_by_n (None or <<k>>)
    flipping,           \* argument flipping
    aff,                \* argument aff: "None" or "given"
    labels_shape,       \* local labels_shape (reassigned after padding)
    crop_shape,         \* local crop_shape
    output_shape,       \* local output_shape
    padding_margin,     \* local padding_margin
    printed,            \* get_shapes printed the 'changed to' message
    labels,             \* static spatial shape of the tensor `labels`
    image,              \* static spatial shape of the tensor `image`
    generation_labels,  \* argument generation_labels (sequence)
    output_labels,      \* argument output_labels (set of values)
    rpc,                \* position along the label path of the graph
    vol,                \* voxel values of the tensor `labels` in one run
    labels_back         \* voxel values of the tensor produced by line 237

argvars == <<in_labels_shape, in_output_shape, atlas_res, target_res,
             in_padding_margin, output_div_by_n>>

planvars == <<crop_shape, output_shape, padding_margin, printed>>

shapevars == <<pc, argvars, flipping, aff, labels_shape, planvars, labels,
               image>>

labvars == <<generation_labels, output_labels, rpc, vol, labels_back>>

vars == <<shapevars, labvars>>

\* ------------------------------------------------------- numeric helpers
Min(a, b) == IF a <= b THEN a ELSE b

\* int(n / d) for n >= 0, d > 0
IntTrunc(n, d) == n \div d

\* int(np.around(n / d, 0)): round half to even
AroundInt(n, d) ==
    LET q == n \div d
        r == n % d
    IN  IF 2 * r < d THEN q
        ELSE IF 2 * r > d THEN q + 1
        ELSE IF q % 2 = 0 THEN q ELSE q + 1

\* utils.find_closest_number_divisible_by_m(n, m, smaller_ans)
find_closest_number_divisible_by_m(n, m, smaller_ans) ==
    IF smaller_ans THEN m * (n \div m)
    ELSE m * ((n + m - 1) \div m)

\* ------------------------------------------------------------ get_shapes
\* lines 253-256: labels_shape after padding
PaddedLabelsShape(ls, pm) ==
    IF pm # None THEN [i \in Dims |-> ls[i] + 2 * pm[i]] ELSE ls

\* lines 258-262: resample_factor is None iff the resolutions are equal
HasResampleFactor(ares, tres) == ares # tres

\* lines 268-272, mutant: the larger of the two shapes is kept
ClampOutputShapeMax(ls, os, ares, tres) ==
    [i \in Dims |-> IF IntTrunc(ls[i] * ares[i], tres[i]) >= os[i]
                    THEN IntTrunc(ls[i] * ares[i], tres[i]) ELSE os[i]]

\* lines 268-272: output shape smaller or equal to label shape
ClampOutputShape(ls, os, ares, tres) ==
    IF HasResampleFactor(ares, tres)
    THEN [i \in Dims |-> Min(IntTrunc(ls[i] * ares[i], tres[i]), os[i])]
    ELSE [i \in Dims |-> Min(ls[i], os[i])]

\* lines 275-277: tmp_shape
TmpShape(os, div) ==
    [i \in Dims |-> find_closest_number_divisible_by_m(os[i], div[1], TRUE)]

\* lines 283-287, mutant: multiplies by the factor instead of dividing
CroppingShapeMul(os, ares, tres) ==
    [i \in Dims |-> AroundInt(os[i] * ares[i], tres[i])]

\* lines 283-287: cropping shape from the output shape
CroppingShape(os, ares, tres) ==
    IF HasResampleFactor(ares, tres)
    THEN [i \in Dims |-> AroundInt(os[i] * tres[i], ares[i])]
    ELSE os

\* lines 292-295, mutant: divides by the factor instead of multiplying
DefaultOutputShapeDiv(cs, ares, tres) ==
    [i \in Dims |-> AroundInt(cs[i] * tres[i], ares[i])]

\* lines 292-295: output shape from the cropping shape
DefaultOutputShape(cs, ares, tres) ==
    IF HasResampleFactor(ares, tres)
    THEN [i \in Dims |-> AroundInt(cs[i] * ares[i], tres[i])]
    ELSE cs

\* lines 296-299, mutant: the constraint is not applied
DefaultDivisibleSkip(os, div) == os

\* lines 296-299, mutant: always the next multiple
DefaultDivisibleNext(os, div) ==
    IF div # None
    THEN [i \in Dims |-> div[1] * ((os[i] \div div[1]) + 1)]
    ELSE os

\* lines 296-299: output shape divisible by output_div_by_n
DefaultDivisible(os, div) ==
    IF div # None
    THEN [i \in Dims |->
            find_closest_number_divisible_by_m(os[i], div[1], FALSE)]
    ELSE os

\* lines 249-301
get_shapes(ls0, os0, ares, tres, pm, div) ==
    LET ls == PaddedLabelsShape(ls0, pm)
    IN  IF os0 # None
        THEN LET clamped == ClampOutputShape(ls, os0, ares, tres)
                 tmp     == IF div # None THEN TmpShape(clamped, div)
                            ELSE clamped
                 os      == IF div # None /\ clamped # tmp THEN tmp
                            ELSE clamped
             IN  [cropping_shape |-> CroppingShape(os, ares, tres),
                  output_shape   |-> os,
                  padding_margin |-> pm,
                  printed        |-> (div # None /\ clamped # tmp)]
        ELSE LET cs == ls
                 os == DefaultOutputShape(cs, ares, tres)
             IN  [cropping_shape |-> cs,
                  output_shape   |-> DefaultDivisible(os, div),
                  padding_margin |-> pm,
                  printed        |-> FALSE]

\* ------------------------------------------------- labels_to_image_model
ShapeSet(lo, hi) == [Dims -> lo..hi]

\* a number given for a vector is repeated along the n_dims dimensions
\* (line 136 for target_res, line 255 for padding_margin)
Isotropic(lo, hi) == {[i \in Dims |-> v] : v \in lo..hi}

Init ==
    /\ pc = "start"
    /\ in_labels_shape \in ShapeSet(1, MaxDim)
    /\ in_output_shape \in {None} \cup ShapeSet(1, MaxOut)
    /\ atlas_res \in ShapeSet(1, MaxRes)
    /\ target_res \in Isotropic(1, MaxRes)
    /\ in_padding_margin \in {None} \cup Isotropic(0, MaxPad)
    /\ output_div_by_n \in {None} \cup {<<k>> : k \in 1..MaxDiv}
    /\ flipping = FALSE
    /\ aff = "None"
    /\ labels_shape = in_labels_shape
    /\ crop_shape = None
    /\ output_shape = None
    /\ padding_margin = None
    /\ printed = FALSE
    /\ labels = None
    /\ image = None
    /\ generation_labels = <<0>>
    /\ output_labels = {0}
    /\ rpc = "config"
    /\ vol = None
    /\ labels_back = None

\* lines 139-141: get shapes; lines 147-159: inputs and convert_labels
GetShapes ==
    /\ pc = "start"
    /\ LET r == get_shapes(in_labels_shape, in_output_shape, atlas_res,
                           target_res, in_padding_margin, output_div_by_n)
       IN  /\ crop_shape' = r.cropping_shape
           /\ output_shape' = r.output_shape
           /\ padding_margin' = r.padding_margin
           /\ printed' = r.printed
    /\ labels' = in_labels_shape
    /\ pc' = "planned"
    /\ UNCHANGED <<labvars, argvars, flipping, aff, labels_shape, image>>

\* lines 161-165: pad labels
PadLabels ==
    /\ pc = "planned"
    /\ IF padding_margin # None
       THEN /\ labels' = [i \in Dims |-> labels[i] + 2 * padding_margin[i]]
            /\ labels_shape' = labels'
       ELSE UNCHANGED <<labels, labels_shape>>
    /\ pc' = "padded"
    /\ UNCHANGED <<labvars, argvars, flipping, aff, planvars, image>>

\* lines 167-170: deform labels (shape preserving) and cast
DeformLabels ==
    /\ pc = "padded"
    /\ pc' = "deformed"
    /\ UNCHANGED <<labvars, argvars, flipping, aff, labels_shape, planvars, labels,
                   image>>

\* lines 172-174: cropping
Cropping ==
    /\ pc = "deformed"
    /\ IF crop_shape # labels_shape
       THEN IF \A i \in Dims : crop_shape[i] <= labels[i]
            THEN labels' = crop_shape /\ pc' = "cropped"
            ELSE UNCHANGED labels /\ pc' = "crop_error"
       ELSE UNCHANGED labels /\ pc' = "cropped"
    /\ UNCHANGED <<labvars, argvars, flipping, aff, labels_shape, planvars, image>>

\* lines 176-178, mutant: the assertion is missing
FlippingNoAssert ==
    /\ pc = "cropped"
    /\ \E f \in BOOLEAN, a \in {"None", "given"} :
         /\ flipping' = f
         /\ aff' = a
         /\ pc' = "flipped"
    /\ UNCHANGED <<labvars, argvars, labels_shape, planvars, labels, image>>

\* lines 176-178: flipping
Flipping ==
    /\ pc = "cropped"
    /\ \E f \in BOOLEAN, a \in {"None", "given"} :
         /\ flipping' = f
         /\ aff' = a
         /\ IF f /\ a = "None"
            THEN pc' = "AssertionError"
            ELSE pc' = "flipped"
    /\ UNCHANGED <<labvars, argvars, labels_shape, planvars, labels, image>>

\* lines 180-230: sample the image at the labels' shape, then per channel
\* blur (shape preserving) and resample_tensor(channel, output_shape, ...)
BuildImage ==
    /\ pc = "flipped"
    /\ image' = output_shape
    /\ pc' = "image_built"
    /\ UNCHANGED <<labvars, argvars, flipping, aff, labels_shape, planvars, labels>>

\* lines 232-240, mutant: the test compares with labels_shape
ResampleLabelsWrongTest ==
    /\ pc = "image_built"
    /\ IF crop_shape # labels_shape
       THEN labels' = output_shape
       ELSE UNCHANGED labels
    /\ pc' = "labels_out"
    /\ UNCHANGED <<labvars, argvars, flipping, aff, labels_shape, planvars, image>>

\* lines 232-240: resample labels at target resolution, convert back
ResampleLabels ==
    /\ pc = "image_built"
    /\ IF crop_shape # output_shape
       THEN labels' = output_shape
       ELSE UNCHANGED labels
    /\ pc' = "labels_out"
    /\ UNCHANGED <<labvars, argvars, flipping, aff, labels_shape, planvars, image>>

\* lines 242-246: build model
BuildModel ==
    /\ pc = "labels_out"
    /\ pc' = "returned"
    /\ UNCHANGED <<labvars, argvars, flipping, aff, labels_shape, planvars, labels,
                   image>>

Next ==
    \/ GetShapes
    \/ PadLabels
    \/ DeformLabels
    \/ Cropping
    \/ Flipping
    \/ BuildImage
    \/ ResampleLabels
    \/ BuildModel

Spec == Init /\ [][Next]_vars

\* ------------------------------------------ label path of the built graph
\* The label values of one volume are followed through the stages that
\* labels_to_image_model wires for the tensor `labels`.  The volume is a
\* sequence of voxels (one spatial axis).

Range(f) == {f[i] : i \in DOMAIN f}

\* the increasing sequence of the elements of a set of numbers
RECURSIVE SortedSeq(_)
SortedSeq(S) ==
    IF S = {} THEN <<>>
    ELSE LET m == CHOOSE x \in S : \A y \in S : x <= y
         IN  <<m>> \o SortedSeq(S \ {m})

\* line 145, utils.rearrange_label_list: lut[label] = position, from 0
Lut(gl, v) == (CHOOSE n \in DOMAIN gl : gl[n] = v) - 1

\* lines 159 and 237, l2i_et.convert_labels on a dense-to-label table
ConvertBack(gl, x) == gl[x + 1]

\* line 238, mutant: the labels missing from generation_labels are reset
LabelsToResetSwapped(gl, ol) == {lab \in ol : lab \notin Range(gl)}

\* line 238: labels_to_reset
LabelsToReset(gl, ol) == {lab \in Range(gl) : lab \notin ol}

\* line 239, l2i_et.reset_label_values_to_zero
ResetLabelValuesToZero(v, to_reset) ==
    [i \in DOMAIN v |-> IF v[i] \in to_reset THEN 0 ELSE v[i]]

\* line 178, l2i_sp.label_map_random_flipping: swap of the dense indices
\* of the two sided blocks that follow the n_neutral_labels neutral ones
SwapSided(x, n, n_neutral_labels) ==
    LET half == (n - n_neutral_labels) \div 2
    IN  IF x < n_neutral_labels THEN x
        ELSE IF x < n_neutral_labels + half THEN x + half
        ELSE x - half

Reverse(v) == [i \in 1..Len(v) |-> v[Len(v) + 1 - i]]

GenerationLabelLists ==
    {<<0>> \o SortedSeq(S) : S \in SUBSET (1..MaxLabel)}

InitLabels ==
    /\ pc = "returned"
    /\ in_labels_shape = [i \in Dims |-> 1]
    /\ in_output_shape = None
    /\ atlas_res = [i \in Dims |-> 1]
    /\ target_res = [i \in Dims |-> 1]
    /\ in_padding_margin = None
    /\ output_div_by_n = None
    /\ flipping = FALSE
    /\ aff = "None"
    /\ labels_shape = in_labels_shape
    /\ crop_shape = in_labels_shape
    /\ output_shape = in_labels_shape
    /\ padding_margin = None
    /\ printed = FALSE
    /\ labels = in_labels_shape
    /\ image = in_labels_shape
    /\ generation_labels \in GenerationLabelLists
    /\ output_labels \in SUBSET (0..MaxLabel)
    /\ rpc = "config"
    /\ vol = None
    /\ labels_back = None

\* lines 143-145 and 236-239 at build time: the look-up table and the
\* list of labels to reset are computed; nothing compares output_labels
\* with generation_labels
BuildLabelPath ==
    /\ rpc = "config"
    /\ rpc' = "built"
    /\ UNCHANGED <<shapevars, generation_labels, output_labels, vol,
                   labels_back>>

\* line 148: a label map is fed, all its values in generation_labels
FeedLabels ==
    /\ rpc = "built"
    /\ vol' \in [1..VolLen -> Range(generation_labels)]
    /\ rpc' = "fed"
    /\ UNCHANGED <<shapevars, generation_labels, output_labels, labels_back>>

\* line 159: convert labels to new_label_list
ConvertLabels ==
    /\ rpc = "fed"
    /\ vol' = [i \in DOMAIN vol |-> Lut(generation_labels, vol[i])]
    /\ rpc' = "converted"
    /\ UNCHANGED <<shapevars, generation_labels, output_labels, labels_back>>

\* lines 161-165: zero padding, inserted when padding_margin is given
PadVolume ==
    /\ rpc = "converted"
    /\ \/ vol' = <<0>> \o vol \o <<0>>
       \/ UNCHANGED vol
    /\ rpc' = "padded"
    /\ UNCHANGED <<shapevars, generation_labels, output_labels, labels_back>>

\* lines 167-170: nearest-neighbour deformation (every voxel takes the
\* value of a voxel of the input or the fill value 0), then the cast
DeformVolume ==
    /\ rpc = "padded"
    /\ \/ vol' \in [DOMAIN vol -> Range(vol) \cup {0}]
       \/ UNCHANGED vol
    /\ rpc' = "deformed"
    /\ UNCHANGED <<shapevars, generation_labels, output_labels, labels_back>>

\* lines 172-174: random cropping to a window of the crop length
CropVolume ==
    /\ rpc = "deformed"
    /\ \/ \E n \in 1..Len(vol) : \E off \in 0..(Len(vol) - n) :
            vol' = SubSeq(vol, off + 1, off + n)
       \/ UNCHANGED vol
    /\ rpc' = "cropped"
    /\ UNCHANGED <<shapevars, generation_labels, output_labels, labels_back>>

\* lines 176-178: random flipping with swap of the sided labels
FlipVolume ==
    /\ rpc = "cropped"
    /\ \/ \E nn \in 1..Len(generation_labels) :
            /\ (Len(generation_labels) - nn) % 2 = 0
            /\ vol' = Reverse([i \in DOMAIN vol |->
                         SwapSided(vol[i], Len(generation_labels), nn)])
       \/ UNCHANGED vol
    /\ rpc' = "flipped"
    /\ UNCHANGED <<shapevars, generation_labels, output_labels, labels_back>>

\* lines 232-235: nearest-neighbour resampling to the output shape,
\* inserted when crop_shape differs from output_shape
ResampleVolume ==
    /\ rpc = "flipped"
    /\ \/ \E n \in 1..(VolLen + 1) : vol' \in [1..n -> Range(vol)]
       \/ UNCHANGED vol
    /\ rpc' = "resampled"
    /\ UNCHANGED <<shapevars, generation_labels, output_labels, labels_back>>

\* line 237: convert labels back to original values
ConvertLabelsBack ==
    /\ rpc = "resampled"
    /\ vol' = [i \in DOMAIN vol |-> ConvertBack(generation_labels, vol[i])]
    /\ labels_back' = vol'
    /\ rpc' = "original_values"
    /\ UNCHANGED <<shapevars, generation_labels, output_labels>>

\* lines 238-240: reset unwanted labels to zero, cast
ResetLabels ==
    /\ rpc = "original_values"
    /\ vol' = ResetLabelValuesToZero(vol,
                 LabelsToReset(generation_labels, output_labels))
    /\ rpc' = "labels_out"
    /\ UNCHANGED <<shapevars, generation_labels, output_labels, labels_back>>

NextLabels ==
    \/ BuildLabelPath
    \/ FeedLabels
    \/ ConvertLabels
    \/ PadVolume
    \/ DeformVolume
    \/ CropVolume
    \/ FlipVolume
    \/ ResampleVolume
    \/ ConvertLabelsBack
    \/ ResetLabels

SpecLabels == InitLabels /\ [][NextLabels]_vars

\* ---------------------------------------------------------------- claims
Planned == pc \notin {"start"}

\* the padded labels_shape of the call
Padded == PaddedLabelsShape(in_labels_shape, in_padding_margin)

\* output_shape[i] <= Padded[i] * atlas_res[i] / target_res[i]
WithinScaled(os, i) == os[i] * target_res[i] <= Padded[i] * atlas_res[i]

\* the output shape get_shapes returns for the same call without the
\* divisibility constraint
Unconstrained ==
    get_shapes(in_labels_shape, in_output_shape, atlas_res, target_res,
               in_padding_margin, None).output_shape

\* C1: when output_div_by_n = k is given, every dimension of the returned
\* output_shape is divisible by k, with or without an explicit
\* output_shape, padding, or resampling.
C1_Divisible ==
    (Planned /\ output_div_by_n # None)
        => \A i \in Dims : output_shape[i] % output_div_by_n[1] = 0

C1_Witness ==
    /\ pc = "planned"
    /\ in_output_shape = None
    /\ output_div_by_n = <<2>>
    /\ in_padding_margin # None
    /\ HasResampleFactor(atlas_res, target_res)
    /\ output_shape # Unconstrained

\* C2: with an explicit output_shape, the returned output_shape is in each
\* dimension at most the padded labels_shape scaled by atlas_res /
\* target_res, also after the divisibility adjustment.
C2_Clamp ==
    (Planned /\ in_output_shape # None)
        => \A i \in Dims : WithinScaled(output_shape, i)

C2_Witness ==
    /\ pc = "planned"
    /\ in_output_shape # None
    /\ in_padding_margin # None
    /\ HasResampleFactor(atlas_res, target_res)
    /\ \E i \in Dims : ~WithinScaled(in_output_shape, i)
    /\ printed

\* C4: the image and the label volume of the returned graph both have the
\* planned output_shape, whether the cropping stage and the label
\* resampling stage are inserted or skipped.
C4_OutputShapes ==
    (pc \in {"labels_out", "returned"})
        => (image = output_shape /\ labels = output_shape)

C4_Witness ==
    /\ pc = "returned"
    /\ crop_shape # labels_shape
    /\ crop_shape # output_shape
    /\ labels = output_shape
    /\ image = output_shape

\* C5: with flipping enabled and aff absent the build ends in an error and
\* no graph is returned; with flipping disabled an absent aff causes no
\* error.
C5_FlippingNeedsAff ==
    /\ (flipping /\ aff = "None")
          => pc \notin {"flipped", "image_built", "labels_out", "returned"}
    /\ (pc = "AssertionError") => (flipping /\ aff = "None")

C5_Witness ==
    /\ pc = "AssertionError"
    /\ flipping
    /\ aff = "None"

\* C6: whenever output_div_by_n makes get_shapes return an output_shape
\* different from the one returned without the constraint, the change is
\* reported, with and without an explicit output_shape.
C6_ChangeReported ==
    (Planned /\ output_shape # Unconstrained) => printed

C8_Original ==
    Planned => \A i \in Dims : WithinScaled(output_shape, i)

\* C8 (amended): with an explicit output_shape the returned output_shape
\* is at most the scaled padded shape; with none it exceeds the scaled
\* padded shape by at most 1/2 (rounding) plus k - 1 (rounding up to a
\* multiple of k = output_div_by_n, k = 1 when absent).
C8_Bounded ==
    Planned =>
        \A i \in Dims :
            IF in_output_shape # None
            THEN WithinScaled(output_shape, i)
            ELSE LET k == IF output_div_by_n # None
                          THEN output_div_by_n[1] ELSE 1
                 IN  2 * target_res[i] * (output_shape[i] - (k - 1))
                        <= 2 * Padded[i] * atlas_res[i] + target_res[i]

C8_Witness ==
    /\ pc = "planned"
    /\ in_output_shape = None
    /\ output_div_by_n # None
    /\ \E i \in Dims : ~WithinScaled(output_shape, i)

\* C10: with an explicit output_shape the returned crop_shape is in every
\* dimension at most the padded labels_shape the builder compares it
\* with, so the cropping stage is never asked for more than it has.
C10_CropFits ==
    /\ (Planned /\ in_output_shape # None)
          => \A i \in Dims : crop_shape[i] <= Padded[i]
    /\ (pc \notin {"start", "planned"}) => labels_shape = Padded
    /\ pc # "crop_error"

C10_Witness ==
    /\ pc = "cropped"
    /\ in_output_shape # None
    /\ in_padding_margin # None
    /\ HasResampleFactor(atlas_res, target_res)
    /\ output_div_by_n # None
    /\ crop_shape # labels_shape
    /\ labels = crop_shape
    /\ \E i \in Dims : crop_shape[i] = labels_shape[i]

\* C3: for an input label map with all values in generation_labels and
\* any combination of the optional stages, every voxel of the returned
\* label volume is in output_labels or is 0; a voxel whose final label is
\* not in output_labels is emitted as 0 and the others keep their label.
C3_LabelSet ==
    (rpc = "labels_out") =>
        /\ \A i \in DOMAIN vol : vol[i] \in output_labels \cup {0}
        /\ DOMAIN vol = DOMAIN labels_back
        /\ \A i \in DOMAIN vol :
              vol[i] = IF labels_back[i] \in output_labels
                       THEN labels_back[i] ELSE 0

C3_Witness ==
    /\ rpc = "labels_out"
    /\ Len(vol) = VolLen + 1
    /\ \E i \in DOMAIN vol :
          /\ labels_back[i] \in Range(generation_labels)
          /\ labels_back[i] \notin output_labels \cup {0}
          /\ vol[i] = 0
    /\ \E i \in DOMAIN vol : vol[i] # 0

\* C9: building the graph with an output_labels that contains a value not
\* present in generation_labels fails at build time and returns no graph.
C9_SubsetEnforced ==
    ~(output_labels \subseteq Range(generation_labels))
        => rpc = "config"
====
